---------------------------- MODULE Spec2Model ----------------------------
(***************************************************************************)
(* A model of the ETF signal-fusion service: the voting aggregator and the *)
(* position sizer of StrategyEngine, the three indicator strategies, the   *)
(* advisory cache of LLMService, the retry-then-synthesize acquisition of  *)
(* ETFDataService and the timeout dispatch of the API routes.              *)
(*                                                                         *)
(* Numbers.  Confidences are exact rationals in units of 1/600 (One = 600  *)
(* is 1.0), so that every sum of up to three confidences divides exactly   *)
(* by its vote count.  Money is in cents.  The action strings of the       *)
(* source are written "Buy" (买入), "Sell" (卖出), "Hold" (持有) and        *)
(* "Wait" (等待).                                                           *)
(***************************************************************************)
EXTENDS Integers, Sequences, FiniteSets, TLC

VARIABLES
    \* StrategyEngine.analyze (voting part)
    signals,        \* the three strategy signals handed to the vote
    result,         \* the dict analyze returned, or NoResult
    \* StrategyEngine.calculate_position
    posCall,        \* the last call: its arguments and what it returned
    posPrev,        \* the call before it
    halfMode,       \* how round() resolves an exact half cent
    \* the three strategies' analyze
    prices,         \* the price sequence handed to the strategies
    stratSignal,    \* strategy name -> the Signal its analyze returned, or NoSignal
    computed,       \* the strategies whose analyze went on to compute indicators
    \* LLMService.generate_advice and the llm_cache table
    provider,       \* the provider LLMService.__init__ selected
    llm_cache,      \* the rows of the table llm_cache
    now,            \* datetime.now(), in hours
    req,            \* server process -> the generate_advice call it is in
    started,        \* the number of generate_advice calls begun
    done,           \* the calls that returned, oldest first (the last two)
    \* ETFDataService._generate_mock_history
    hashOf,         \* server process -> instrument code -> hash(code) there
    rng,            \* server process -> the state of its np.random generator
    gen,            \* server process -> pool thread -> the call it is in
    genDone,        \* the calls that returned, oldest first
    \* ETFDataService.get_price_history
    fetch,          \* the call of get_price_history observed
    \* the timeout dispatch of the routes
    clock,          \* the time of the event loop, in seconds
    acq,            \* the dispatched acquisition call observed
    busy,           \* the number of pool threads running a call
    loopBusy,       \* a handler is running a blocking call on the event loop
    \* the route get_strategy
    route,          \* the request being handled and its response
    served,         \* the number of requests taken
    \* PriceDataProcessor
    indPrices,      \* the price list handed to the indicator functions
    indOut,         \* indicator -> the list(s) it returned
    indDone         \* the indicators computed so far

engineVars == <<signals, result>>
posVars == <<posCall, posPrev, halfMode>>
stratVars == <<prices, stratSignal, computed>>
cacheVars == <<provider, llm_cache, now, req, started, done>>
mockVars == <<hashOf, rng, gen, genDone>>
fetchVars == <<fetch>>
dispatchVars == <<clock, acq, busy, loopBusy>>
routeVars == <<route, served>>
indVars == <<indPrices, indOut, indDone>>
moreVars == <<routeVars, indVars>>
vars == <<signals, result, posCall, posPrev, halfMode,
          prices, stratSignal, computed,
          provider, llm_cache, now, req, started, done,
          hashOf, rng, gen, genDone, fetch,
          clock, acq, busy, loopBusy,
          route, served,
          indPrices, indOut, indDone>>

-----------------------------------------------------------------------------
(* Bounds of the model *)

\* calculate_position is called with every capital of 0 .. MaxCapitalCents
\* cents (and with the 10000.00 of the route)
MaxCapitalCents == 3

\* the strategies are run on price sequences of every length 0 .. MaxLen
MaxLen == 32

\* prices are whole numbers 1 .. MaxPrice
MaxPrice == 5

\* generate_advice is called MaxRequests times, by MaxProcs server processes
MaxRequests == 3
MaxProcs == 2

\* the clock advances MaxTicks times by TickHours hours
MaxTicks == 3
TickHours == 12

\* _generate_mock_history is called MaxGenCalls times, by MaxThreads pool
\* threads in each server process
MaxGenCalls == 2
MaxThreads == 2

\* the event loop is followed for MaxClock seconds
MaxClock == 8

\* get_strategy handles MaxRouteRequests requests
MaxRouteRequests == 2

-----------------------------------------------------------------------------
(* Values *)

One == 600

\* a confidence given in percent
Pct(p) == p * 6

Actions == {"Buy", "Sell", "Hold"}

\* the iteration order of the dicts votes / total_confidence
ActionOrder == <<"Buy", "Sell", "Hold">>

NoResult == [final_action |-> "none"]

Max2(a, b) == IF a >= b THEN a ELSE b
Min2(a, b) == IF a <= b THEN a ELSE b

-----------------------------------------------------------------------------
(* StrategyEngine.analyze: the vote (strategy_engine.py 252-271) *)

ZeroTally == [a \in Actions |-> 0]

\* for s in signals: votes[s['signal']] += 1
RECURSIVE TallyVotes(_, _, _)
TallyVotes(sigs, i, votes) ==
    IF i > Len(sigs) THEN votes
    ELSE TallyVotes(sigs, i + 1,
                    [votes EXCEPT ![sigs[i].signal] = @ + 1])

\* for s in signals: total_confidence[s['signal']] += s['confidence']
RECURSIVE TallyConfidence(_, _, _)
TallyConfidence(sigs, i, total) ==
    IF i > Len(sigs) THEN total
    ELSE TallyConfidence(sigs, i + 1,
                         [total EXCEPT ![sigs[i].signal] = @ + sigs[i].confidence])

\* the key of max(): the tuple (votes[x], total_confidence[x]), compared
\* lexicographically
KeyVotesOnly(a, b, votes, total) == votes[a] > votes[b]

\* a comparison that lets the later of two equal keys win
KeyNotLess(a, b, votes, total) ==
    \/ votes[a] > votes[b]
    \/ votes[a] = votes[b] /\ total[a] >= total[b]

KeyGreater(a, b, votes, total) ==
    \/ votes[a] > votes[b]
    \/ votes[a] = votes[b] /\ total[a] > total[b]

\* max(votes, key=...): the first key, in dict order, whose key tuple no
\* later one exceeds (max keeps the earlier of two equal items)
RECURSIVE PyMax(_, _, _, _)
PyMax(i, best, votes, total) ==
    IF i > Len(ActionOrder) THEN best
    ELSE PyMax(i + 1,
               IF KeyGreater(ActionOrder[i], best, votes, total)
               THEN ActionOrder[i] ELSE best,
               votes, total)

AvgOverAll(total, votes, a) == total[a] \div 3

\* total_confidence[final_action] / votes[final_action] if votes[...] > 0 else 0.5
AvgConfidence(total, votes, a) ==
    IF votes[a] > 0 THEN total[a] \div votes[a] ELSE Pct(50)

Aggregate(sigs) ==
    LET votes == TallyVotes(sigs, 1, ZeroTally)
        total == TallyConfidence(sigs, 1, ZeroTally)
        final_action == PyMax(2, ActionOrder[1], votes, total)
    IN  [signals |-> sigs,
         final_action |-> final_action,
         confidence |-> AvgConfidence(total, votes, final_action),
         votes |-> votes]

\* the confidences a signal is given in the vote's check: the ones the three
\* strategies emit (0.50 .. 0.85) and the ones of the documented examples
ConfLevels == {Pct(50), Pct(55), Pct(60), Pct(80), Pct(85), Pct(90), Pct(95), One}

SignalValues == [signal : Actions, confidence : ConfLevels]

VoteInit ==
    /\ signals \in [1..3 -> SignalValues]
    /\ result = NoResult

Vote ==
    /\ result = NoResult
    /\ result' = Aggregate(signals)
    /\ UNCHANGED signals

-----------------------------------------------------------------------------
(* StrategyEngine.calculate_position (strategy_engine.py 273-282) *)

\* round(x, 2) of x = n / d cents, n >= 0: to the nearest cent; an exact half
\* goes to the even cent by the rule of round(), and to either side once the
\* binary representation of the product is off the half: halfMode fixes it
RoundCents(n, d, mode) ==
    LET q == n \div d
        r == n % d
    IN  IF 2 * r < d THEN q
        ELSE IF 2 * r > d THEN q + 1
        ELSE IF mode = "up" THEN q + 1
        ELSE IF mode = "down" THEN q
        ELSE IF q % 2 = 0 THEN q ELSE q + 1

\* position_pct in units of 1/750 (Pct750 is 1.0):
\* 0.1 + (confidence - 0.5) * 0.8, the confidence in units of 1/600
Pct750 == 750

RawPct(confidence) == 75 + (confidence - Pct(50))

\* the clamp left out
UnclampedPct(confidence) == RawPct(confidence)

\* max(0.1, min(0.5, position_pct))
ClampPct(confidence) == Max2(75, Min2(375, RawPct(confidence)))

calculate_position(total_capital, confidence, final_action, mode) ==
    IF final_action # "Buy" THEN 0
    ELSE RoundCents(total_capital * ClampPct(confidence), Pct750, mode)

\* the 10000 yuan of get_strategy, in cents
RouteCapital == 1000000

Capitals == (0..MaxCapitalCents) \cup {RouteCapital}

\* confidences below, at and above the 0.5 .. 1.0 range the fraction maps
PosConfidences == {0, Pct(40), Pct(50), Pct(55), Pct(75), Pct(90), One}

NoCall == [final_action |-> "none"]

PosInit ==
    /\ posCall = NoCall
    /\ posPrev = NoCall
    /\ halfMode \in {"even", "up", "down"}

CalculatePosition ==
    \E cap \in Capitals, conf \in PosConfidences, act \in Actions :
        /\ posPrev' = posCall
        /\ posCall' = [total_capital |-> cap, confidence |-> conf,
                       final_action |-> act,
                       amount |-> calculate_position(cap, conf, act, halfMode)]
        /\ UNCHANGED halfMode

-----------------------------------------------------------------------------
(* The indicators of the strategies, in exact arithmetic.  A rolling value *)
(* is NaN until its window is full; every comparison with NaN is false.    *)
(* Indices are those of the sequence, 1 .. n: iloc[-k] is index n + 1 - k. *)

RECURSIVE SumRange(_, _, _)
SumRange(xs, lo, hi) ==
    IF lo > hi THEN 0 ELSE xs[lo] + SumRange(xs, lo + 1, hi)

RECURSIVE SumSqRange(_, _, _)
SumSqRange(xs, lo, hi) ==
    IF lo > hi THEN 0 ELSE xs[lo] * xs[lo] + SumSqRange(xs, lo + 1, hi)

\* rolling(window).sum() at index i, where rolling(window).mean() is defined
RollingDefined(i, window) == i >= window
RollingSum(xs, i, window) == SumRange(xs, i - window + 1, i)

\* a / b < c / d for a, c >= 0 and b, d > 0, by continued fractions (no product)
RECURSIVE FracLess(_, _, _, _)
FracLess(a, b, c, d) ==
    LET qa == a \div b
        qc == c \div d
        ra == a % b
        rc == c % d
    IN  IF qa # qc THEN qa < qc
        ELSE IF rc = 0 THEN FALSE
        ELSE IF ra = 0 THEN TRUE
        ELSE FracLess(d, rc, b, ra)

Signal(name, signal, confidence, details) ==
    [name |-> name, signal |-> signal, confidence |-> confidence,
     details |-> details]

\* Signal(signal="持有", confidence=0.5, details="数据不足")
InsufficientData(name) == Signal(name, "Hold", Pct(50), "insufficient data")

-----------------------------------------------------------------------------
(* MovingAverageStrategy.analyze (strategy_engine.py 24-87) *)

short_window == 5
long_window == 20
GuardMargin == 5

\* the margin of 5 taken for 1
MAGuardTooLow(xs) == Len(xs) < long_window + 1

\* a guard that also turns away the sequences of 30 values
MAGuardTooHigh(xs) == Len(xs) < long_window + GuardMargin + 6

MAGuard(xs) == Len(xs) < long_window + GuardMargin

\* the 1-based index of series.iloc[-k] in a series of n values: iloc[-1]
\* is the last value, so iloc[-k] lies k - 1 steps before it
IlocStepsBack(n, k) == n - k

Iloc(n, k) == n - k + 1

MADecide(xs) ==
    LET n == Len(xs)
        current_price == xs[n]
        \* the rolling sums: ma_short = S5 / 5, ma_long = S20 / 20
        S5(i) == RollingSum(xs, i, short_window)
        S20(i) == RollingSum(xs, i, long_window)
        \* ma_short > ma_long at index i (both defined there)
        ShortAbove(i) == long_window * S5(i) > short_window * S20(i)
        ShortBelow(i) == long_window * S5(i) < short_window * S20(i)
        \* short_trend = ma_short.iloc[-1] / ma_short.iloc[-5] - 1  (> 0)
        short_trend_pos ==
            /\ RollingDefined(Iloc(n, 5), short_window)
            /\ S5(n) > S5(Iloc(n, 5))
        \* long_trend = ma_long.iloc[-1] / ma_long.iloc[-10] - 1  (< -0.02);
        \* ma_long.iloc[-10] is NaN while n - 9 < long_window
        long_trend_down ==
            /\ RollingDefined(Iloc(n, 10), long_window)
            /\ 100 * S20(n) < 98 * S20(Iloc(n, 10))
        golden_cross == ~ShortAbove(Iloc(n, 2)) /\ ShortAbove(n)
        death_cross == ~ShortBelow(Iloc(n, 2)) /\ ShortBelow(n)
        price_above_ma == short_window * current_price > S5(n)
    IN  IF golden_cross /\ price_above_ma
            THEN Signal("MA", "Buy", Pct(85), "golden cross")
        ELSE IF death_cross
            THEN Signal("MA", "Sell", Pct(80), "death cross")
        ELSE IF ShortAbove(n) /\ short_trend_pos
            THEN Signal("MA", "Buy", Pct(70), "short above, rising")
        ELSE IF ShortBelow(n) /\ long_trend_down
            THEN Signal("MA", "Sell", Pct(70), "long trend down")
        ELSE IF price_above_ma
            THEN Signal("MA", "Hold", Pct(60), "price steady")
        ELSE Signal("MA", "Hold", Pct(55), "wait and see")

MAAnalyzeSignal(xs) ==
    IF MAGuard(xs) THEN InsufficientData("MA") ELSE MADecide(xs)

-----------------------------------------------------------------------------
(* RSIStrategy.analyze (strategy_engine.py 98-153) *)

period == 14
overbought == 70
oversold == 30

RSIGuard(xs) == Len(xs) < period + GuardMargin

\* delta.where(delta > 0, 0) and -delta.where(delta < 0, 0): the NaN first
\* difference fails both tests and becomes 0
Gain(xs, i) == IF i >= 2 /\ xs[i] > xs[i - 1] THEN xs[i] - xs[i - 1] ELSE 0
Loss(xs, i) == IF i >= 2 /\ xs[i] < xs[i - 1] THEN xs[i - 1] - xs[i] ELSE 0

RECURSIVE GainSum(_, _, _)
GainSum(xs, lo, hi) ==
    IF lo > hi THEN 0 ELSE Gain(xs, lo) + GainSum(xs, lo + 1, hi)

RECURSIVE LossSum(_, _, _)
LossSum(xs, lo, hi) ==
    IF lo > hi THEN 0 ELSE Loss(xs, lo) + LossSum(xs, lo + 1, hi)

\* rsi = 100 - 100 / (1 + gain / loss) at index i, as the fraction
\* 100 * g / (g + l) of the window's gain and loss sums: NaN before the
\* window is full and when both are 0 (0 / 0); 100 when only the loss is 0
\* (gain / 0 is infinite)
\* 0 / 0 taken for infinite, as gain / 0 is
RSIAtNoLossIsFull(xs, i) ==
    IF ~RollingDefined(i, period) THEN [nan |-> TRUE, num |-> 0, den |-> 1]
    ELSE LET g == GainSum(xs, i - period + 1, i)
             l == LossSum(xs, i - period + 1, i)
         IN  IF l = 0 THEN [nan |-> FALSE, num |-> 100, den |-> 1]
             ELSE [nan |-> FALSE, num |-> 100 * g, den |-> g + l]

RSIAt(xs, i) ==
    IF ~RollingDefined(i, period) THEN [nan |-> TRUE, num |-> 0, den |-> 1]
    ELSE LET g == GainSum(xs, i - period + 1, i)
             l == LossSum(xs, i - period + 1, i)
         IN  IF g + l = 0 THEN [nan |-> TRUE, num |-> 0, den |-> 1]
             ELSE [nan |-> FALSE, num |-> 100 * g, den |-> g + l]

RSIDecide(xs) ==
    LET n == Len(xs)
        current_rsi == RSIAt(xs, n)
        earlier_rsi == RSIAt(xs, Iloc(n, 5))
        ok == ~current_rsi.nan
        \* rsi_trend = rsi.iloc[-1] - rsi.iloc[-5], times both denominators
        both == ok /\ ~earlier_rsi.nan
        trend_scaled == current_rsi.num * earlier_rsi.den
                        - earlier_rsi.num * current_rsi.den
        dens == current_rsi.den * earlier_rsi.den
    IN  IF ok /\ current_rsi.num >= overbought * current_rsi.den
            THEN Signal("RSI", "Sell", Pct(85), "overbought")
        ELSE IF ok /\ current_rsi.num <= oversold * current_rsi.den
            THEN Signal("RSI", "Buy", Pct(80), "oversold")
        ELSE IF /\ ok /\ current_rsi.num > 60 * current_rsi.den
                /\ both /\ trend_scaled < (-5) * dens
            THEN Signal("RSI", "Sell", Pct(65), "turning down")
        ELSE IF /\ ok /\ current_rsi.num < 40 * current_rsi.den
                /\ both /\ trend_scaled > 5 * dens
            THEN Signal("RSI", "Buy", Pct(65), "turning up")
        ELSE IF ok /\ current_rsi.num > 50 * current_rsi.den
            THEN Signal("RSI", "Hold", Pct(55), "strong side")
        ELSE Signal("RSI", "Hold", Pct(55), "weak side")

RSIAnalyzeSignal(xs) ==
    IF RSIGuard(xs) THEN InsufficientData("RSI") ELSE RSIDecide(xs)

-----------------------------------------------------------------------------
(* BollingerBandStrategy.analyze (strategy_engine.py 163-225) *)

window == 20
std_dev == 2

BollGuard(xs) == Len(xs) < window + GuardMargin

\* With S the window's sum and T its sum of squares: middle = S / 20 and
\* std (ddof = 1) = sqrt(Q / (20 * 19)) for Q = 20 * T - S * S.
BollQ(xs, i) ==
    window * SumSqRange(xs, i - window + 1, i)
    - RollingSum(xs, i, window) * RollingSum(xs, i, window)

\* volatility_change > 1.1 on the widths upper - lower alone, the middle
\* band left out
WidthExpanding(Q, S, prevQ, prevS) == prevQ > 0 /\ 121 * prevQ < 100 * Q

\* volatility_change > 1.1 for volatility_change = bandwidth / prev_bandwidth
\* if prev_bandwidth > 0 else 1, bandwidth = (upper - lower) / middle
\* = 4 * std / middle:  121 * prevQ / prevS^2 < 100 * Q / S^2
volatility_expanding(Q, S, prevQ, prevS) ==
    /\ prevQ > 0
    /\ FracLess(121 * prevQ, prevS * prevS, 100 * Q, S * S)

BollDecide(xs) ==
    LET n == Len(xs)
        current_price == xs[n]
        S == RollingSum(xs, n, window)
        Q == BollQ(xs, n)
        prevS == RollingSum(xs, Iloc(n, 2), window)
        prevQ == BollQ(xs, Iloc(n, 2))
        \* d = 20 * (price - middle); upper - middle = 2 * std
        d == window * current_price - S
        \* |price - middle| >= std_dev * std:  19 * d^2 >= 20 * std_dev^2 * Q
        outside == (window - 1) * d * d >= window * std_dev * std_dev * Q
        at_upper == d >= 0 /\ outside
        at_lower == d <= 0 /\ outside
        \* position = (price - lower) / (upper - lower), 0.5 when the bands
        \* coincide: position > 0.8 iff d > 0.6 * 2 * std * 20, that is
        \* 95 * d^2 > 144 * Q
        far == 95 * d * d > 144 * Q
        position_high == Q > 0 /\ d > 0 /\ far
        position_low == Q > 0 /\ d < 0 /\ far
        position_above_half == Q > 0 /\ d > 0
        \* volatility_change = bandwidth / prev_bandwidth if prev_bandwidth > 0
        \* else 1, bandwidth = 4 * std / middle:  > 1.1 iff
        \* 121 * prevQ / prevS^2 < 100 * Q / S^2
        expanding == volatility_expanding(Q, S, prevQ, prevS)
    IN  IF at_upper
            THEN Signal("Bollinger", "Sell", Pct(85), "at upper band")
        ELSE IF at_lower
            THEN Signal("Bollinger", "Buy", Pct(80), "at lower band")
        ELSE IF position_high /\ expanding
            THEN Signal("Bollinger", "Sell", Pct(70), "near upper, widening")
        ELSE IF position_low /\ expanding
            THEN Signal("Bollinger", "Buy", Pct(70), "near lower, widening")
        ELSE IF position_above_half
            THEN Signal("Bollinger", "Hold", Pct(55), "above middle")
        ELSE Signal("Bollinger", "Hold", Pct(55), "below middle")

BollAnalyzeSignal(xs) ==
    IF BollGuard(xs) THEN InsufficientData("Bollinger") ELSE BollDecide(xs)

-----------------------------------------------------------------------------
(* The strategies run on a price sequence *)

Strategies == {"MA", "RSI", "Bollinger"}

NoSignal == [name |-> "none"]

\* the price at index i of a sequence of length n, by shape
ShapePrice(shape, n, i) ==
    LET mid == (1 + MaxPrice) \div 2
        ramp == 1 + ((i - 1) * (MaxPrice - 1)) \div Max2(1, n - 1)
        half == (n + 1) \div 2
        vee == IF i <= half
               THEN MaxPrice - ((i - 1) * (MaxPrice - 1)) \div Max2(1, half - 1)
               ELSE 1 + ((i - half) * (MaxPrice - 1)) \div Max2(1, n - half)
    IN  CASE shape = "flat" -> mid
          [] shape = "up" -> ramp
          [] shape = "down" -> MaxPrice + 1 - ramp
          [] shape = "vee" -> vee
          [] shape = "peak" -> MaxPrice + 1 - vee
          [] shape = "saw" -> IF i % 2 = 0 THEN mid + 1 ELSE mid - 1
          [] shape = "jump" -> IF i = n THEN MaxPrice ELSE mid
          [] shape = "drop" -> IF i = n THEN 1 ELSE mid
          [] shape = "step" -> IF i + 8 < n THEN 1 ELSE mid
          [] shape = "sink" -> IF i + 8 < n THEN MaxPrice ELSE mid
          [] shape = "floor" -> 1
          [] shape = "ceiling" -> MaxPrice
          [] shape = "climb" -> i
          [] shape = "climb3" -> 3 * i
          [] shape = "surge" -> i + (i * i) \div 8
          [] shape = "creep" -> IF i + 10 <= n THEN 2 * i
                                ELSE Max2(i, i + n - 10)
          [] shape = "nick" -> IF i + 1 < n THEN mid
                               ELSE IF i + 1 = n THEN mid - 2 ELSE mid - 1
          [] shape = "dip" -> IF i + 5 < n THEN mid
                              ELSE IF i + 5 = n THEN mid - 2 ELSE mid - 1

Shapes ==
    {"flat", "up", "down", "vee", "peak", "saw", "jump", "drop", "step", "sink",
     "dip", "nick", "floor", "ceiling", "climb", "climb3", "surge", "creep"}

PriceSeries(shape, n) == [i \in 1..n |-> ShapePrice(shape, n, i)]

PriceInputs == {PriceSeries(shape, n) : shape \in Shapes, n \in 0..MaxLen}

StratInit ==
    /\ prices \in PriceInputs
    /\ stratSignal = [st \in Strategies |-> NoSignal]
    /\ computed = {}

MAAnalyze ==
    /\ stratSignal["MA"] = NoSignal
    /\ stratSignal' = [stratSignal EXCEPT !["MA"] = MAAnalyzeSignal(prices)]
    /\ computed' = IF MAGuard(prices) THEN computed ELSE computed \cup {"MA"}
    /\ UNCHANGED prices

RSIAnalyze ==
    /\ stratSignal["RSI"] = NoSignal
    /\ stratSignal' = [stratSignal EXCEPT !["RSI"] = RSIAnalyzeSignal(prices)]
    /\ computed' = IF RSIGuard(prices) THEN computed ELSE computed \cup {"RSI"}
    /\ UNCHANGED prices

BollAnalyze ==
    /\ stratSignal["Bollinger"] = NoSignal
    /\ stratSignal' = [stratSignal EXCEPT !["Bollinger"] = BollAnalyzeSignal(prices)]
    /\ computed' = IF BollGuard(prices) THEN computed
                   ELSE computed \cup {"Bollinger"}
    /\ UNCHANGED prices

-----------------------------------------------------------------------------
(* LLMService (llm_service.py) and the table llm_cache (database.py 56-65) *)

Procs == 1..MaxProcs

None == [kind |-> "none"]
EmptyText == [kind |-> "empty"]

\* the strategy results advice is asked for: a Buy, the all-Hold result of
\* insufficient data
AdviceInputs ==
    << Aggregate(<<Signal("MA", "Buy", Pct(85), "golden cross"),
                   Signal("RSI", "Buy", Pct(80), "oversold"),
                   Signal("Bollinger", "Hold", Pct(55), "above middle")>>),
       Aggregate(<<InsufficientData("MA"), InsufficientData("RSI"),
                   InsufficientData("Bollinger")>>) >>

\* f"{confidence:.0%}": the confidence as a whole percentage, halves to even
PercentText(confidence) == RoundCents(confidence, 6, "even")

\* the prompt: the template filled with the final action, the confidence and
\* each signal's name, action, confidence and details
BuildPrompt(sr) ==
    [final_action |-> sr.final_action,
     confidence |-> PercentText(sr.confidence),
     signals |-> [i \in 1..Len(sr.signals) |->
                    <<sr.signals[i].name, sr.signals[i].signal,
                      PercentText(sr.signals[i].confidence),
                      sr.signals[i].details>>]]

\* whether the word of an action occurs in the prompt
Mentions(prompt, action) ==
    \/ prompt.final_action = action
    \/ \E i \in 1..Len(prompt.signals) : prompt.signals[i][2] = action

\* hashlib.md5(prompt.encode()).hexdigest(): a digest, equal for equal
\* prompts and distinct for distinct prompts
generate_cache_key(prompt) == <<"md5", prompt>>

\* MockLLMProvider.generate
MockGenerate(prompt) ==
    IF Mentions(prompt, "Buy") THEN [kind |-> "mock", text |-> "buy"]
    ELSE IF Mentions(prompt, "Sell") THEN [kind |-> "mock", text |-> "sell"]
    ELSE [kind |-> "mock", text |-> "hold"]

\* what DeepSeekProvider / OpenAIProvider.generate can return: the content of
\* the reply (temperature 0.7: not a function of the prompt), which may be
\* empty, or None after an error, a non-200 status or without an api key
RemoteOutcomes ==
    {[kind |-> "remote", text |-> "t1"], [kind |-> "remote", text |-> "t2"],
     EmptyText, None}

ProviderOutcomes(prov, prompt) ==
    IF prov = "mock" THEN {MockGenerate(prompt)} ELSE RemoteOutcomes

\* "is not None", which an empty text passes
NotNone(text) == text # None

\* "if response:" and "if cached:"
Truthy(text) == text # None /\ text # EmptyText

\* _rule_based_advice
RuleBasedAdvice(sr) ==
    [kind |-> "rule",
     action |-> sr.final_action,
     strength |-> IF sr.confidence > Pct(75) THEN "strong"
                  ELSE IF sr.confidence < Pct(55) THEN "weak, careful"
                  ELSE "plain",
     risk |-> IF sr.final_action = "Buy" THEN "stop loss"
              ELSE IF sr.final_action = "Sell" THEN "reduce in steps"
              ELSE ""]

CACHE_TTL_HOURS == 24

NoRow == [signal_key |-> "none"]

\* session.query(LLMCache).filter(LLMCache.signal_key == cache_key).first()
QueryFirst(table, cache_key) ==
    IF \E row \in table : row.signal_key = cache_key
    THEN CHOOSE row \in table : row.signal_key = cache_key
    ELSE NoRow

\* _get_cached_response: the response of the row of the key when it has not
\* expired; None when there is none, when it has expired and when the query
\* raises
get_cached_response(table, cache_key, t, raises) ==
    LET cached == QueryFirst(table, cache_key)
    IN  IF ~raises /\ cached # NoRow /\ cached.expires_at > t
        THEN cached.response ELSE None

\* an INSERT into a table that has no unique constraint on signal_key
InsertNoUnique(table, row) == table \cup {row}

\* session.add(cache); session.commit(): signal_key is unique, so the INSERT
\* of a key the table holds raises IntegrityError and adds nothing
Insert(table, row) ==
    IF \E r \in table : r.signal_key = row.signal_key THEN table
    ELSE table \cup {row}

\* _save_to_cache: every exception is caught and printed
save_to_cache(table, cache_key, prompt, response, t, raises) ==
    IF raises THEN table
    ELSE Insert(table, [signal_key |-> cache_key, prompt |-> prompt,
                        response |-> response,
                        expires_at |-> t + CACHE_TTL_HOURS])

IdleReq == [pc |-> "idle"]

CacheInit ==
    /\ provider \in {"mock", "remote"}
    /\ llm_cache = {}
    /\ now = 0
    /\ req = [p \in Procs |-> IdleReq]
    /\ started = 0
    /\ done = <<>>

InFlight(p) == req[p].pc = "miss"

\* the record of a call that returned, appended to the last one kept
Returned(call) ==
    LET n == IF done = <<>> THEN 1 ELSE done[Len(done)].end + 1
        rec == [call EXCEPT !.pc = "done", !.end = n]
    IN  IF done = <<>> THEN <<rec>> ELSE <<done[Len(done)], rec>>

\* generate_advice up to "cached = self._get_cached_response(cache_key)" and
\* the return of a cached response (lines 179-210)
Lookup(p) ==
    \E k \in 1..Len(AdviceInputs), raises \in BOOLEAN :
        LET sr == AdviceInputs[k]
            prompt == BuildPrompt(sr)
            cache_key == generate_cache_key(prompt)
            row == QueryFirst(llm_cache, cache_key)
            cached == get_cached_response(llm_cache, cache_key, now, raises)
            others == {q \in Procs : q # p /\ InFlight(q)}
            call == [pc |-> "miss",
                     input |-> k,
                     begin |-> IF done = <<>> THEN 0 ELSE done[Len(done)].end,
                     end |-> 0,
                     overlapped |-> others # {},
                     t_lookup |-> now,
                     lookup_raised |-> raises,
                     found_expired |-> ~raises /\ row # NoRow
                                       /\ row.expires_at <= now,
                     provider_calls |-> 0,
                     response |-> None,
                     save_raised |-> FALSE,
                     saves |-> 0,
                     advice |-> cached]
        IN  /\ req[p].pc = "idle"
            /\ started < MaxRequests
            /\ started' = started + 1
            /\ IF Truthy(cached)
               THEN /\ done' = Returned(call)
                    /\ req' = [q \in Procs |->
                          IF q \in others THEN [req[q] EXCEPT !.overlapped = TRUE]
                          ELSE req[q]]
               ELSE /\ done' = done
                    /\ req' = [q \in Procs |->
                          IF q = p THEN call
                          ELSE IF q \in others
                               THEN [req[q] EXCEPT !.overlapped = TRUE]
                          ELSE req[q]]
            /\ UNCHANGED <<provider, llm_cache, now>>

\* generate_advice from "response = self.provider.generate(prompt)" to its
\* return (lines 212-220)
Generate(p) ==
    /\ req[p].pc = "miss"
    /\ LET sr == AdviceInputs[req[p].input]
           prompt == BuildPrompt(sr)
           cache_key == generate_cache_key(prompt)
       IN  \E response \in ProviderOutcomes(provider, prompt), raises \in BOOLEAN :
              /\ ~Truthy(response) => ~raises
              /\ llm_cache' =
                    IF Truthy(response)
                    THEN save_to_cache(llm_cache, cache_key, prompt, response,
                                       now, raises)
                    ELSE llm_cache
              /\ done' = Returned(
                    [req[p] EXCEPT !.provider_calls = @ + 1,
                                   !.response = response,
                                   !.save_raised = raises,
                                   !.saves = IF Truthy(response) THEN 1 ELSE 0,
                                   !.advice = IF Truthy(response) THEN response
                                              ELSE RuleBasedAdvice(sr)])
              /\ req' = [req EXCEPT ![p] = IdleReq]
    /\ UNCHANGED <<provider, now, started>>

\* time passes, by far more than a call lasts (the provider's timeout is 30 s)
Tick ==
    /\ \A p \in Procs : ~InFlight(p)
    /\ now + TickHours <= MaxTicks * TickHours
    /\ now' = now + TickHours
    /\ UNCHANGED <<provider, llm_cache, req, started, done>>

-----------------------------------------------------------------------------
(* ETFDataService._generate_mock_history (data_service.py 230-258) *)

Codes == {"510300", "159915"}

\* values of hash(code): a str hash is keyed by the interpreter's hash seed,
\* which each process draws at start-up unless PYTHONHASHSEED fixes it
HashValues == {12345, 54377}

\* the seeds of np.random.seed, 2**32 in the source, here the state space of
\* the generator below
SeedSpace == 65536

\* np.random.seed(hash(code) % 2**32)
Seed(h) == h % SeedSpace

\* np.random is a deterministic generator with one global state per process:
\* every draw advances the state and is a function of it
NextState(s) == (s * 25173 + 13849) % SeedSpace

\* np.random.randn() * 0.02, in percent: one of -2 .. 2
Randn(s) == ((s \div 256) % 5) - 2

\* int(np.random.uniform(1000000, 10000000))
Uniform(s) == 1000000 + (s % 9000) * 1000

\* prices are kept in units of 0.00001
PriceUnit == 100000

\* base_price = 3.0 + (hash(code) % 100) / 50
BasePrice(h) == 3 * PriceUnit + ((h % 100) * PriceUnit) \div 50

\* the locals of a call before the loop: i is the loop variable, days first
MockLocals(code, days, h) ==
    [code |-> code, days |-> days, i |-> days,
     current_price |-> BasePrice(h),
     dates |-> <<>>, prices |-> <<>>, volumes |-> <<>>]

\* one iteration of "for i in range(days, 0, -1)" on the locals loc, the
\* global generator in state s, today the day number of datetime.now():
\* the locals and the generator state after it
MockIteration(loc, s, today) ==
    LET s1 == NextState(s)
        cur == (loc.current_price * (100 + Randn(s1))) \div 100
        s2 == NextState(s1)
    IN  [loc |-> [loc EXCEPT !.i = loc.i - 1,
                             !.current_price = cur,
                             !.dates = Append(loc.dates, today - loc.i),
                             !.prices = Append(loc.prices,
                                   RoundCents(cur, PriceUnit \div 1000, "even")),
                             !.volumes = Append(loc.volumes, Uniform(s2))],
         rng |-> s2]

\* the dict the function returns
MockDict(loc) ==
    [code |-> loc.code, period |-> <<loc.days, "d">>,
     dates |-> loc.dates, prices |-> loc.prices, volumes |-> loc.volumes]

\* k passes of the loop from the locals and generator state st, run as the
\* first half of them followed by the rest
RECURSIVE MockLoop(_, _, _)
MockLoop(st, k, today) ==
    IF k = 0 THEN st
    ELSE IF k = 1 THEN MockIteration(st.loc, st.rng, today)
    ELSE CHOOSE end \in {MockLoop(mid, k - k \div 2, today) :
                              mid \in {MockLoop(st, k \div 2, today)}} : TRUE

\* a call that no other user of np.random interleaves with: the dict it
\* returns, and the state it leaves the generator in
generate_mock_history(code, days, h, today) ==
    LET end == MockLoop([loc |-> MockLocals(code, days, h), rng |-> Seed(h)],
                        days, today)
    IN  [dict |-> MockDict(end.loc), rng |-> end.rng]

\* the requested lengths of the calls observed
GenDays == {2, 3}

\* the pool threads of a process that run the function at the same time
Threads == 1..MaxThreads

IdleGen == [pc |-> "idle"]

MockInit ==
    /\ hashOf \in [Procs -> [Codes -> HashValues]]
    /\ rng = [p \in Procs |-> 0]
    /\ gen = [p \in Procs |-> [t \in Threads |-> IdleGen]]
    /\ genDone = <<>>

\* the calls in progress
Running == {pt \in Procs \X Threads : gen[pt[1]][pt[2]].pc # "idle"}

\* lines 232-239: the seed is set and the locals are initialised
GenBegin(p, t) ==
    \E code \in Codes, days \in GenDays :
        /\ gen[p][t].pc = "idle"
        /\ Len(genDone) + Cardinality(Running) < MaxGenCalls
        /\ rng' = [rng EXCEPT ![p] = Seed(hashOf[p][code])]
        /\ gen' = [gen EXCEPT ![p][t] =
              [pc |-> "loop", proc |-> p,
               loc |-> MockLocals(code, days, hashOf[p][code])]]
        /\ UNCHANGED <<hashOf, genDone>>

\* lines 241-249: one iteration of the loop
GenIterate(p, t) ==
    /\ gen[p][t].pc = "loop"
    /\ gen[p][t].loc.i > 0
    /\ LET it == MockIteration(gen[p][t].loc, rng[p], now \div 24)
       IN  /\ rng' = [rng EXCEPT ![p] = it.rng]
           /\ gen' = [gen EXCEPT ![p][t].loc = it.loc]
    /\ UNCHANGED <<hashOf, genDone>>

\* lines 251-257: the dict is returned
GenReturn(p, t) ==
    /\ gen[p][t].pc = "loop"
    /\ gen[p][t].loc.i = 0
    /\ genDone' = Append(genDone,
          [proc |-> p, dict |-> MockDict(gen[p][t].loc)])
    /\ gen' = [gen EXCEPT ![p][t] = IdleGen]
    /\ UNCHANGED <<hashOf, rng>>

-----------------------------------------------------------------------------
(* ETFDataService.get_price_history (data_service.py 89-143) *)

MAX_RETRIES == 3
RETRY_DELAY == 2

Periods == {"1w", "1m", "3m", "6m", "1y", "5y"}

\* the default of period_config.get taken for every period
period_config_default(per) == [akshare_period |-> "daily", days |-> 180]

\* period_config.get(period, ('daily', 180))
period_config(per) ==
    CASE per = "1w" -> [akshare_period |-> "weekly", days |-> 7]
      [] per = "1m" -> [akshare_period |-> "monthly", days |-> 30]
      [] per = "3m" -> [akshare_period |-> "monthly", days |-> 90]
      [] per = "6m" -> [akshare_period |-> "daily", days |-> 180]
      [] per = "1y" -> [akshare_period |-> "daily", days |-> 365]
      [] OTHER -> [akshare_period |-> "daily", days |-> 180]

\* a frame of n rows as ak.fund_etf_hist_em returns it, oldest row first
Frame(n) == [k \in 1..n |-> [date |-> k, close |-> 3000 + k, volume |-> 1000 * k]]

\* df.tail(days)
FrameTail(df, days) == SubSeq(df, Max2(1, Len(df) - days + 1), Len(df))

\* what one call of ak.fund_etf_hist_em can do: raise, or return a frame that
\* is empty, shorter than days, of days rows, or longer
AkOutcomes(days) ==
    {[kind |-> "raise"]}
    \cup {[kind |-> "frame", df |-> Frame(n)] : n \in {0, 1, days, days + 1}}

Column(df, col) == [k \in 1..Len(df) |-> df[k][col]]

IdleFetch == [pc |-> "idle"]

FetchInit ==
    /\ fetch = IdleFetch
    /\ hashOf \in [Procs -> [Codes -> HashValues]]
    /\ rng = [p \in Procs |-> 0]
    /\ gen = [p \in Procs |-> [t \in Threads |-> IdleGen]]
    /\ genDone = <<>>

\* lines 96-109: the call begins (in the first server process)
FetchBegin ==
    \E code \in Codes, per \in Periods :
        /\ fetch.pc = "idle"
        /\ fetch' = [pc |-> "loop", proc |-> 1, code |-> code,
                     period |-> per,
                     akshare_period |-> period_config(per).akshare_period,
                     days |-> period_config(per).days,
                     attempt |-> 0,
                     outcomes |-> <<>>,     \* of the calls of ak, in order
                     slept |-> <<>>,        \* the attempts a sleep followed
                     elapsed |-> 0,         \* the time spent in time.sleep
                     result |-> [source |-> "none"]]
        /\ UNCHANGED mockVars

\* lines 111-140: one pass of "for attempt in range(MAX_RETRIES)"
FetchAttempt ==
    /\ fetch.pc = "loop"
    /\ fetch.attempt < MAX_RETRIES
    /\ \E out \in AkOutcomes(fetch.days) :
          LET nonempty == out.kind = "frame" /\ Len(out.df) > 0
              df == FrameTail(out.df, fetch.days)
              sleeps == out.kind = "raise" /\ fetch.attempt < MAX_RETRIES - 1
              tried == [fetch EXCEPT
                          !.outcomes = Append(@, IF out.kind = "raise" THEN "raise"
                                                 ELSE IF nonempty THEN "data"
                                                 ELSE "empty")]
          IN  IF nonempty
              THEN fetch' = [tried EXCEPT
                                !.pc = "returned",
                                !.result = [source |-> "ak",
                                            code |-> fetch.code,
                                            period |-> fetch.period,
                                            dates |-> Column(df, "date"),
                                            prices |-> Column(df, "close"),
                                            volumes |-> Column(df, "volume")]]
              ELSE fetch' = [tried EXCEPT
                                !.attempt = @ + 1,
                                !.slept = IF sleeps THEN Append(@, fetch.attempt)
                                          ELSE @,
                                !.elapsed = IF sleeps THEN @ + RETRY_DELAY ELSE @]
    /\ UNCHANGED mockVars

\* line 143: the loop is exhausted; the synthetic series is returned
FetchFallback ==
    /\ fetch.pc = "loop"
    /\ fetch.attempt = MAX_RETRIES
    /\ LET mock == generate_mock_history(fetch.code, fetch.days,
                       hashOf[fetch.proc][fetch.code], now \div 24)
       IN  /\ fetch' = [fetch EXCEPT
                           !.pc = "returned",
                           !.result = [source |-> "mock"] @@ mock.dict]
           /\ rng' = [rng EXCEPT ![fetch.proc] = mock.rng]
    /\ UNCHANGED <<hashOf, gen, genDone>>

-----------------------------------------------------------------------------
(* get_price_with_timeout (api/strategy.py 17-29) and get_data_with_timeout  *)
(* (api/data.py 13-31), on the event loop and the worker pool               *)

\* ThreadPoolExecutor(max_workers=4)
max_workers == 4

\* the timeout, in seconds, the routes pass
RouteTimeout == 5

\* the dict returned on asyncio.TimeoutError
TimeoutObject(code) ==
    [code |-> code, dates |-> <<>>, prices |-> <<>>, volumes |-> <<>>,
     error |-> "timeout"]

\* what ETFDataService.get_price_history returns to the worker thread: it
\* never raises, and its dict has the series of the source or the synthetic one
FetchResult(code) ==
    [code |-> code, dates |-> <<1>>, prices |-> <<3001>>, volumes |-> <<1000>>]

IdleCall == [pc |-> "idle"]

DispatchInit ==
    /\ clock = 0
    /\ acq = IdleCall
    /\ busy \in 0..max_workers
    /\ loopBusy = FALSE

\* the coroutine runs up to "await asyncio.wait_for(loop.run_in_executor(...))":
\* the function is submitted to the pool, which runs it at once when a thread
\* is free and queues it otherwise; the timer of wait_for is set
Dispatch ==
    \E code \in Codes :
        /\ acq.pc = "idle"
        /\ ~loopBusy
        /\ acq' = [pc |-> "waiting", code |-> code,
                    dispatchedAt |-> clock,
                    timeout |-> RouteTimeout,
                    deadline |-> clock + RouteTimeout,
                    worker |-> IF busy < max_workers THEN "running" ELSE "queued",
                    outcome |-> [error |-> "none"],
                    resolvedAt |-> 0]
        /\ busy' = IF busy < max_workers THEN busy + 1 ELSE busy
        /\ UNCHANGED <<clock, loopBusy>>

\* a thread of the pool finishes the call of another request; the queued call,
\* if there is one, takes the thread
OtherFinish ==
    /\ busy > (IF acq.pc # "idle" /\ acq.worker = "running" THEN 1 ELSE 0)
    /\ IF acq.pc # "idle" /\ acq.worker = "queued"
       THEN acq' = [acq EXCEPT !.worker = "running"] /\ busy' = busy
       ELSE acq' = acq /\ busy' = busy - 1
    /\ UNCHANGED <<clock, loopBusy>>

\* the worker thread returns from get_price_history, whether or not the
\* caller still waits for it
WorkerFinish ==
    /\ acq.pc # "idle"
    /\ acq.worker = "running"
    /\ acq' = [acq EXCEPT !.worker = "finished"]
    /\ busy' = busy - 1
    /\ UNCHANGED <<clock, loopBusy>>

\* a request arrives for a route whose handler calls ETFDataService on the
\* event loop itself (sync_data, api/data.py 105; get_etf_info, api/etf.py 99):
\* the loop runs nothing else until the handler returns
BlockLoop ==
    /\ ~loopBusy
    /\ loopBusy' = TRUE
    /\ UNCHANGED <<clock, acq, busy>>

UnblockLoop ==
    /\ loopBusy
    /\ loopBusy' = FALSE
    /\ UNCHANGED <<clock, acq, busy>>

\* the loop runs the callback of the finished future: wait_for returns the
\* result (line 25)
ResolveResult ==
    /\ acq.pc = "waiting"
    /\ acq.worker = "finished"
    /\ ~loopBusy
    /\ acq' = [acq EXCEPT !.pc = "resolved",
                            !.outcome = FetchResult(acq.code),
                            !.resolvedAt = clock]
    /\ UNCHANGED <<clock, busy, loopBusy>>

\* the loop runs the timer of wait_for: the future is cancelled (a queued
\* call is dropped, a running one runs on in its thread) and TimeoutError is
\* caught (lines 26-27)
ResolveTimeout ==
    /\ acq.pc = "waiting"
    /\ clock >= acq.deadline
    /\ ~loopBusy
    /\ acq' = [acq EXCEPT !.pc = "resolved",
                            !.outcome = TimeoutObject(acq.code),
                            !.resolvedAt = clock,
                            !.worker = IF @ = "queued" THEN "cancelled" ELSE @]
    /\ UNCHANGED <<clock, busy, loopBusy>>

\* the loop has a callback or a due timer to run and is free to run it
LoopReady ==
    /\ ~loopBusy
    /\ acq.pc = "waiting"
    /\ acq.worker = "finished" \/ clock >= acq.deadline

\* a second passes; a free loop runs what is ready before
TickSecond ==
    /\ clock < MaxClock
    /\ ~LoopReady
    /\ clock' = clock + 1
    /\ UNCHANGED <<acq, busy, loopBusy>>

-----------------------------------------------------------------------------
(* get_strategy (api/strategy.py 32-82) *)

\* StrategyEngine.analyze: the three strategies in the order of
\* self.strategies, then the vote
engine_analyze(xs) ==
    Aggregate(<<MAAnalyzeSignal(xs), RSIAnalyzeSignal(xs), BollAnalyzeSignal(xs)>>)

\* LLMService.generate_advice run as one step on the table at time t: the
\* lookup raising or not, the provider returning response when it is asked,
\* the save raising or not; the advice returned and the table left
AdviceCall(table, prov, t, sr, lookup_raises, response, save_raises) ==
    LET prompt == BuildPrompt(sr)
        cache_key == generate_cache_key(prompt)
        cached == get_cached_response(table, cache_key, t, lookup_raises)
    IN  IF Truthy(cached) THEN [advice |-> cached, table |-> table]
        ELSE IF Truthy(response)
        THEN [advice |-> response,
              table |-> save_to_cache(table, cache_key, prompt, response, t,
                                      save_raises)]
        ELSE [advice |-> RuleBasedAdvice(sr), table |-> table]

\* the lengths of the price series the route is given
RouteLens == {1, window + GuardMargin - 1, window + GuardMargin, MaxLen}

\* what "await get_price_with_timeout(code, period='3m', timeout=5.0)" gives:
\* the timeout object, or the dict of get_price_history, whose series is
\* never empty
RoutePriceData(code) ==
    {TimeoutObject(code)}
    \cup {[code |-> code, dates |-> [i \in 1..Len(xs) |-> i], prices |-> xs,
           volumes |-> [i \in 1..Len(xs) |-> 1000 * i], error |-> "none"] :
          xs \in {PriceSeries(shape, n) : shape \in Shapes, n \in RouteLens}}

\* the response returned when price_data has no dates (lines 40-56)
DegradedResponse(code, price_data, today) ==
    [code |-> 0,
     data |-> [etf_code |-> code,
               date |-> today,
               signals |-> <<Signal("MA", "Hold", Pct(50), "loading"),
                             Signal("RSI", "Hold", Pct(50), "loading"),
                             Signal("Bollinger", "Hold", Pct(50), "loading")>>,
               final_action |-> "Wait",
               amount |-> 0,
               llm_advice |-> [kind |-> "fixed", text |-> "loading"]],
     warning |-> price_data.error]

\* the response of lines 68-80
FullResponse(code, sr, amount, advice, today) ==
    [code |-> 0,
     data |-> [etf_code |-> code,
               date |-> today,
               signals |-> sr.signals,
               final_action |-> sr.final_action,
               amount |-> amount,
               confidence |-> sr.confidence,
               votes |-> sr.votes,
               llm_advice |-> advice]]

IdleRoute == [pc |-> "idle"]

RouteInit ==
    /\ route = IdleRoute
    /\ served = 0
    /\ provider \in {"mock", "remote"}
    /\ llm_cache = {}
    /\ now = 0
    /\ req = [p \in Procs |-> IdleReq]
    /\ started = 0
    /\ done = <<>>

\* a request GET /api/strategy/{code} is handled up to the return of
\* "await get_price_with_timeout" (line 37)
StrategyRequest ==
    \E code \in Codes :
        \E price_data \in RoutePriceData(code) :
            /\ route.pc \in {"idle", "responded"}
            /\ served < MaxRouteRequests
            /\ served' = served + 1
            /\ route' = [pc |-> "acquired", code |-> code,
                         price_data |-> price_data]
            /\ UNCHANGED cacheVars

\* lines 39-80: the degraded response when there are no dates; otherwise the
\* strategies, the position, the advice and the full response
StrategyRespond ==
    /\ route.pc = "acquired"
    /\ IF route.price_data.dates = <<>>
       THEN /\ route' = [pc |-> "responded", code |-> route.code,
                        response |-> DegradedResponse(route.code,
                                         route.price_data, now \div 24)]
            /\ UNCHANGED llm_cache
       ELSE \E lookup_raises \in BOOLEAN, save_raises \in BOOLEAN :
            \E response \in
                  ProviderOutcomes(provider,
                      BuildPrompt(engine_analyze(route.price_data.prices))) :
               LET sr == engine_analyze(route.price_data.prices)
                   amount == calculate_position(RouteCapital, sr.confidence,
                                                sr.final_action, "even")
                   adv == AdviceCall(llm_cache, provider, now, sr,
                                     lookup_raises, response, save_raises)
               IN  /\ route' = [pc |-> "responded", code |-> route.code,
                               response |-> FullResponse(route.code, sr,
                                     amount, adv.advice, now \div 24)]
                   /\ llm_cache' = adv.table
    /\ UNCHANGED <<served, provider, now, req, started, done>>

-----------------------------------------------------------------------------
(* StrategyEngine.analyze (strategy_engine.py 238-271) on a price list,     *)
(* followed by calculate_position as get_strategy calls it (strategy.py 63) *)

EngineInit ==
    /\ prices \in PriceInputs
    /\ stratSignal = [st \in Strategies |-> NoSignal]
    /\ computed = {}
    /\ signals = <<>>
    /\ result = NoResult
    /\ posCall = NoCall
    /\ posPrev = NoCall
    /\ halfMode = "even"

\* analyze: the three strategies run on the prices, then the vote
EngineAnalyze ==
    /\ result = NoResult
    /\ result' = engine_analyze(prices)
    /\ signals' = result'.signals
    /\ UNCHANGED <<stratVars, posVars>>

\* strategy_engine.calculate_position(10000, result['confidence'],
\* result['final_action'])
EnginePosition ==
    /\ result # NoResult
    /\ posCall = NoCall
    /\ posCall' = [total_capital |-> RouteCapital,
                   confidence |-> result.confidence,
                   final_action |-> result.final_action,
                   amount |-> calculate_position(RouteCapital, result.confidence,
                                                 result.final_action, halfMode)]
    /\ UNCHANGED <<posPrev, halfMode, stratVars, engineVars>>

-----------------------------------------------------------------------------
(* PriceDataProcessor (data_service.py 295-355), as get_indicators calls it *)

\* a list element: the number num / den
Number(num, den) == [num |-> num, den |-> den]

\* a band element: S / window + k * sqrt(Q / (window * (window - 1))), or
\* the 0 that fillna(0) put there
BandValue(S, Q, k) == [zero |-> FALSE, S |-> S, Q |-> Q, k |-> k]
BandZero == [zero |-> TRUE, S |-> 0, Q |-> 0, k |-> 0]

\* [0.0] * len(prices)
Zeros(n) == [i \in 1..n |-> Number(0, 1)]

\* df['close'].rolling(window).mean(), fillna(0)
calculate_ma(xs, w) ==
    IF Len(xs) < w THEN Zeros(Len(xs))
    ELSE [i \in 1..Len(xs) |->
            IF RollingDefined(i, w) THEN Number(RollingSum(xs, i, w), w)
            ELSE Number(0, 1)]

\* 100 - 100 / (1 + gain / loss), fillna(50): the NaN of an unfilled window
\* and of 0 / 0 becomes 50, the 100 of gain / 0 stays
calculate_rsi(xs) ==
    IF Len(xs) < period + 1 THEN Zeros(Len(xs))
    ELSE [i \in 1..Len(xs) |->
            LET rsi == RSIAt(xs, i)
            IN  IF rsi.nan THEN Number(50, 1) ELSE Number(rsi.num, rsi.den)]

BandAt(xs, i, k) ==
    IF RollingDefined(i, window)
    THEN BandValue(RollingSum(xs, i, window), BollQ(xs, i), k)
    ELSE BandZero

calculate_bollinger_bands(xs) ==
    IF Len(xs) < window
    THEN [upper |-> <<>>, middle |-> <<>>, lower |-> <<>>]
    ELSE [upper |-> [i \in 1..Len(xs) |-> BandAt(xs, i, std_dev)],
          middle |-> [i \in 1..Len(xs) |-> BandAt(xs, i, 0)],
          lower |-> [i \in 1..Len(xs) |-> BandAt(xs, i, 0 - std_dev)]]

NoOutputs ==
    [ma5 |-> <<>>, ma20 |-> <<>>, rsi |-> <<>>,
     bb |-> [upper |-> <<>>, middle |-> <<>>, lower |-> <<>>]]

IndInit ==
    /\ indPrices \in PriceInputs
    /\ indOut = NoOutputs
    /\ indDone = {}

CalculateMA5 ==
    /\ "ma5" \notin indDone
    /\ indOut' = [indOut EXCEPT !.ma5 = calculate_ma(indPrices, 5)]
    /\ indDone' = indDone \cup {"ma5"}
    /\ UNCHANGED indPrices

CalculateMA20 ==
    /\ "ma20" \notin indDone
    /\ indOut' = [indOut EXCEPT !.ma20 = calculate_ma(indPrices, 20)]
    /\ indDone' = indDone \cup {"ma20"}
    /\ UNCHANGED indPrices

CalculateRSI ==
    /\ "rsi" \notin indDone
    /\ indOut' = [indOut EXCEPT !.rsi = calculate_rsi(indPrices)]
    /\ indDone' = indDone \cup {"rsi"}
    /\ UNCHANGED indPrices

CalculateBollinger ==
    /\ "bb" \notin indDone
    /\ indOut' = [indOut EXCEPT !.bb = calculate_bollinger_bands(indPrices)]
    /\ indDone' = indDone \cup {"bb"}
    /\ UNCHANGED indPrices

-----------------------------------------------------------------------------
(* Specifications: one per component, the other components at rest *)

VoteIdle == signals = <<>> /\ result = NoResult
PosIdle == posCall = NoCall /\ posPrev = NoCall /\ halfMode = "even"
StratIdle ==
    /\ prices = <<>>
    /\ stratSignal = [st \in Strategies |-> NoSignal]
    /\ computed = {}

CacheIdle ==
    /\ provider = "mock"
    /\ llm_cache = {}
    /\ now = 0
    /\ req = [p \in Procs |-> IdleReq]
    /\ started = 0
    /\ done = <<>>

MockIdle ==
    /\ hashOf = [p \in Procs |-> [c \in Codes |-> 12345]]
    /\ rng = [p \in Procs |-> 0]
    /\ gen = [p \in Procs |-> [t \in Threads |-> IdleGen]]
    /\ genDone = <<>>

FetchIdle == fetch = IdleFetch

DispatchIdle ==
    /\ clock = 0
    /\ acq = IdleCall
    /\ busy = 0
    /\ loopBusy = FALSE

RouteIdle == route = IdleRoute /\ served = 0

IndIdle ==
    /\ indPrices = <<>>
    /\ indOut = NoOutputs
    /\ indDone = {}

MoreIdle == RouteIdle /\ IndIdle

VoteRest ==
    <<posVars, stratVars, cacheVars, mockVars, fetchVars, dispatchVars, moreVars>>
InitVote ==
    /\ VoteInit
    /\ PosIdle /\ StratIdle /\ CacheIdle /\ MockIdle /\ FetchIdle /\ DispatchIdle
    /\ MoreIdle
NextVote == Vote /\ UNCHANGED VoteRest
SpecVote == InitVote /\ [][NextVote]_vars

PosRest ==
    <<engineVars, stratVars, cacheVars, mockVars, fetchVars, dispatchVars, moreVars>>
InitPos ==
    /\ PosInit
    /\ VoteIdle /\ StratIdle /\ CacheIdle /\ MockIdle /\ FetchIdle /\ DispatchIdle
    /\ MoreIdle
NextPos == CalculatePosition /\ UNCHANGED PosRest
SpecPos == InitPos /\ [][NextPos]_vars

StratRest ==
    <<engineVars, posVars, cacheVars, mockVars, fetchVars, dispatchVars, moreVars>>
InitStrat ==
    /\ StratInit
    /\ VoteIdle /\ PosIdle /\ CacheIdle /\ MockIdle /\ FetchIdle /\ DispatchIdle
    /\ MoreIdle
NextStrat ==
    \/ MAAnalyze /\ UNCHANGED StratRest
    \/ RSIAnalyze /\ UNCHANGED StratRest
    \/ BollAnalyze /\ UNCHANGED StratRest
SpecStrat == InitStrat /\ [][NextStrat]_vars

CacheRest ==
    <<engineVars, posVars, stratVars, mockVars, fetchVars, dispatchVars, moreVars>>
InitCache ==
    /\ CacheInit
    /\ VoteIdle /\ PosIdle /\ StratIdle /\ MockIdle /\ FetchIdle /\ DispatchIdle
    /\ MoreIdle
NextCache ==
    \/ \E p \in Procs : Lookup(p) /\ UNCHANGED CacheRest
    \/ \E p \in Procs : Generate(p) /\ UNCHANGED CacheRest
    \/ Tick /\ UNCHANGED CacheRest
SpecCache == InitCache /\ [][NextCache]_vars

FetchRest == <<engineVars, posVars, stratVars, cacheVars, dispatchVars, moreVars>>
InitFetch ==
    /\ FetchInit
    /\ VoteIdle /\ PosIdle /\ StratIdle /\ CacheIdle /\ DispatchIdle
    /\ MoreIdle
NextFetch ==
    \/ FetchBegin /\ UNCHANGED FetchRest
    \/ FetchAttempt /\ UNCHANGED FetchRest
    \/ FetchFallback /\ UNCHANGED FetchRest
SpecFetch == InitFetch /\ [][NextFetch]_vars

MockRest ==
    <<engineVars, posVars, stratVars, cacheVars, fetchVars, dispatchVars, moreVars>>
InitMock ==
    /\ MockInit
    /\ VoteIdle /\ PosIdle /\ StratIdle /\ CacheIdle /\ FetchIdle /\ DispatchIdle
    /\ MoreIdle
NextMock ==
    \/ \E p \in Procs, t \in Threads : GenBegin(p, t) /\ UNCHANGED MockRest
    \/ \E p \in Procs, t \in Threads : GenIterate(p, t) /\ UNCHANGED MockRest
    \/ \E p \in Procs, t \in Threads : GenReturn(p, t) /\ UNCHANGED MockRest
SpecMock == InitMock /\ [][NextMock]_vars

DispatchRest ==
    <<engineVars, posVars, stratVars, cacheVars, mockVars, fetchVars, moreVars>>
InitDispatch ==
    /\ DispatchInit
    /\ VoteIdle /\ PosIdle /\ StratIdle /\ CacheIdle /\ MockIdle /\ FetchIdle
    /\ MoreIdle
NextDispatch ==
    \/ Dispatch /\ UNCHANGED DispatchRest
    \/ OtherFinish /\ UNCHANGED DispatchRest
    \/ WorkerFinish /\ UNCHANGED DispatchRest
    \/ BlockLoop /\ UNCHANGED DispatchRest
    \/ UnblockLoop /\ UNCHANGED DispatchRest
    \/ ResolveResult /\ UNCHANGED DispatchRest
    \/ ResolveTimeout /\ UNCHANGED DispatchRest
    \/ TickSecond /\ UNCHANGED DispatchRest
SpecDispatch == InitDispatch /\ [][NextDispatch]_vars

RouteRest ==
    <<engineVars, posVars, stratVars, mockVars, fetchVars, dispatchVars,
      indVars>>
InitRoute ==
    /\ RouteInit
    /\ VoteIdle /\ PosIdle /\ StratIdle /\ MockIdle /\ FetchIdle /\ DispatchIdle
    /\ IndIdle
NextRoute ==
    \/ StrategyRequest /\ UNCHANGED RouteRest
    \/ StrategyRespond /\ UNCHANGED RouteRest
SpecRoute == InitRoute /\ [][NextRoute]_vars

EngineRest ==
    <<cacheVars, mockVars, fetchVars, dispatchVars, routeVars, indVars>>
InitEngine ==
    /\ EngineInit
    /\ CacheIdle /\ MockIdle /\ FetchIdle /\ DispatchIdle /\ RouteIdle /\ IndIdle
NextEngine ==
    \/ EngineAnalyze /\ UNCHANGED EngineRest
    \/ EnginePosition /\ UNCHANGED EngineRest
SpecEngine == InitEngine /\ [][NextEngine]_vars

IndRest ==
    <<engineVars, posVars, stratVars, cacheVars, mockVars, fetchVars,
      dispatchVars, routeVars>>
InitInd ==
    /\ IndInit
    /\ VoteIdle /\ PosIdle /\ StratIdle /\ CacheIdle /\ MockIdle /\ FetchIdle
    /\ DispatchIdle /\ RouteIdle
NextInd ==
    \/ CalculateMA5 /\ UNCHANGED IndRest
    \/ CalculateMA20 /\ UNCHANGED IndRest
    \/ CalculateRSI /\ UNCHANGED IndRest
    \/ CalculateBollinger /\ UNCHANGED IndRest
SpecInd == InitInd /\ [][NextInd]_vars

-----------------------------------------------------------------------------
(* The vote's claims *)

\* the votes and the summed confidence of an action, counted from the signals
VoteCount(a) == Cardinality({i \in 1..3 : signals[i].signal = a})

ConfSum(a) ==
    (IF signals[1].signal = a THEN signals[1].confidence ELSE 0)
    + (IF signals[2].signal = a THEN signals[2].confidence ELSE 0)
    + (IF signals[3].signal = a THEN signals[3].confidence ELSE 0)

Sig(a, c) == [signal |-> a, confidence |-> c]

TieBreakExample == <<Sig("Buy", Pct(90)), Sig("Sell", Pct(95)), Sig("Hold", Pct(50))>>
MajorityExample == <<Sig("Buy", Pct(90)), Sig("Buy", Pct(60)), Sig("Sell", Pct(80))>>

\* C1: the final action is maximal under (vote count, then summed
\* confidence): no action has more votes than it, none with as many votes
\* has a larger confidence sum; one vote each for (Buy,0.9), (Sell,0.95),
\* (Hold,0.5) elects Sell.
C1_WinnerIsMaximal ==
    result # NoResult =>
        /\ \A a \in Actions :
              /\ VoteCount(a) <= VoteCount(result.final_action)
              /\ VoteCount(a) = VoteCount(result.final_action)
                    => ConfSum(a) <= ConfSum(result.final_action)
        /\ signals = TieBreakExample => result.final_action = "Sell"

C1_Witness ==
    /\ result # NoResult
    /\ signals = TieBreakExample
    /\ result.final_action = "Sell"

\* C2: the votes sum to 3 and count the signals, the winner has a vote, and
\* the confidence is the winner's confidence sum over its votes, within
\* [0,1]; (Buy,0.9), (Buy,0.6), (Sell,0.8) give Buy, 2:1:0 and 0.75.
C2_ConfidenceIsWinnerAverage ==
    result # NoResult =>
        /\ result.votes["Buy"] + result.votes["Sell"] + result.votes["Hold"] = 3
        /\ \A a \in Actions : result.votes[a] = VoteCount(a)
        /\ VoteCount(result.final_action) >= 1
        /\ result.confidence * VoteCount(result.final_action)
              = ConfSum(result.final_action)
        /\ result.confidence >= 0 /\ result.confidence <= One
        /\ signals = MajorityExample =>
              /\ result.final_action = "Buy"
              /\ result.votes = [Buy |-> 2, Sell |-> 1, Hold |-> 0]
              /\ result.confidence = Pct(75)

C2_Witness ==
    /\ result # NoResult
    /\ signals = MajorityExample
    /\ result.confidence = Pct(75)
    /\ result.votes["Buy"] = 2

-----------------------------------------------------------------------------
(* The position sizer's claims *)

Called == posCall # NoCall

\* the fraction the claim states, in units of 1/750
StatedPct(confidence) ==
    LET raw == 75 + (confidence - 300)
    IN  IF raw < 75 THEN 75 ELSE IF raw > 375 THEN 375 ELSE raw

\* half a cent, in units of 1/750 cent
HalfCent == Pct750 \div 2

\* C3 as stated, with no rounding: 0 unless Buy; for Buy exactly the capital
\* times the clamped fraction, hence never below 10% nor above 50% of the
\* capital, and exactly the 10% floor for a confidence below 0.5.
C3_AsStated ==
    Called =>
        /\ posCall.final_action # "Buy" => posCall.amount = 0
        /\ posCall.final_action = "Buy" =>
              /\ posCall.amount * 750
                    = posCall.total_capital * StatedPct(posCall.confidence)
              /\ posCall.amount * 10 >= posCall.total_capital
              /\ posCall.amount * 2 <= posCall.total_capital
              /\ posCall.confidence < Pct(50)
                    => posCall.amount * 10 = posCall.total_capital

\* C3 (amended): 0 unless Buy; for Buy the capital times the clamped
\* fraction 0.1 + (confidence - 0.5) * 0.8, rounded to the cent: within half
\* a cent of that product, so never more than half a cent below 10% nor above
\* 50% of the capital; a confidence below 0.5 gives the rounded 10% floor;
\* non-decreasing in the confidence; 10000 gives 1000 at 0.5, 5000 at 1.0.
C3_PositionRounded ==
    Called =>
        /\ posCall.final_action # "Buy" => posCall.amount = 0
        /\ posCall.final_action = "Buy" =>
              LET cap == posCall.total_capital
                  exact == cap * StatedPct(posCall.confidence)
                  amt == posCall.amount * 750
              IN  /\ amt - exact <= HalfCent /\ exact - amt <= HalfCent
                  /\ amt >= cap * 75 - HalfCent
                  /\ amt <= cap * 375 + HalfCent
                  /\ posCall.confidence < Pct(50)
                        => /\ amt - cap * 75 <= HalfCent
                           /\ cap * 75 - amt <= HalfCent
                  /\ cap = RouteCapital /\ posCall.confidence = Pct(50)
                        => posCall.amount = 100000
                  /\ cap = RouteCapital /\ posCall.confidence = One
                        => posCall.amount = 500000
                  /\ ( /\ posPrev # NoCall
                       /\ posPrev.final_action = "Buy"
                       /\ posPrev.total_capital = cap
                       /\ posPrev.confidence <= posCall.confidence )
                        => posPrev.amount <= posCall.amount

\* a Buy of one cent at confidence 1.0 after a Buy of one cent at 0.4: the
\* rounding and the monotonicity cases both happen
C3_Witness ==
    /\ Called /\ posPrev # NoCall
    /\ posCall.final_action = "Buy" /\ posPrev.final_action = "Buy"
    /\ posCall.total_capital = 1 /\ posPrev.total_capital = 1
    /\ posPrev.confidence = Pct(40) /\ posCall.confidence = One
    /\ posPrev.amount = 0

-----------------------------------------------------------------------------
(* The strategies' claims *)

\* the window each strategy requires
RequiredWindow(st) ==
    CASE st = "MA" -> 20 [] st = "RSI" -> 14 [] st = "Bollinger" -> 20

\* C4: a strategy given fewer than requiredWindow + 5 prices (none
\* included) returns Hold with confidence exactly 0.5 and the
\* insufficient-data details, and computes no indicator.
C4_ShortHistoryHolds ==
    \A st \in Strategies :
        ( /\ stratSignal[st] # NoSignal
          /\ Len(prices) < RequiredWindow(st) + 5 )
        => /\ stratSignal[st].signal = "Hold"
           /\ stratSignal[st].confidence = Pct(50)
           /\ stratSignal[st].details = "insufficient data"
           /\ st \notin computed

\* all three strategies have answered a sequence of 24 prices: the longest
\* the two 20-windows refuse, and one the RSI strategy accepts
C4_Witness ==
    /\ Len(prices) = 24
    /\ \A st \in Strategies : stratSignal[st] # NoSignal
    /\ stratSignal["MA"].details = "insufficient data"
    /\ stratSignal["Bollinger"].details = "insufficient data"
    /\ computed = {"RSI"}

\* the empty sequence and the 18 prices the RSI strategy still refuses
C4_WitnessEmpty ==
    /\ prices = <<>>
    /\ \A st \in Strategies : stratSignal[st] # NoSignal

-----------------------------------------------------------------------------
(* The advisory cache's claims *)

DoneCalls == {done[i] : i \in 1..Len(done)}

KeyOf(call) == generate_cache_key(BuildPrompt(AdviceInputs[call.input]))

\* the provider was called and returned text
GotText(call) == call.provider_calls = 1 /\ Truthy(call.response)

\* the provider was called and returned nothing
GotNothing(call) == call.provider_calls = 1 /\ ~Truthy(call.response)

\* a call during which the provider and the store worked
Clean(call) ==
    /\ ~call.lookup_raised
    /\ ~call.save_raised
    /\ ~GotNothing(call)

NonEmpty(text) == text.kind \in {"mock", "remote", "rule"}

\* C5: with a working provider and store, of two calls with the same prompt
\* made one after the other, no other call in flight, less than 24h apart,
\* the first of which asked the provider, the second returns the same response without a provider
\* call; and a call that finds the entry expired asks the provider.
C5_AsStated ==
    /\ ( /\ Len(done) = 2
         /\ done[1].input = done[2].input
         /\ Clean(done[1]) /\ Clean(done[2])
         /\ ~done[1].overlapped /\ ~done[2].overlapped
         /\ done[2].begin >= done[1].end
         /\ done[1].provider_calls = 1
         /\ done[2].t_lookup - done[1].t_lookup < 24 )
       => /\ done[2].advice = done[1].advice
          /\ done[2].provider_calls = 0
    /\ \A c \in DoneCalls :
          Clean(c) /\ c.found_expired => c.provider_calls = 1

\* C6: after a call that missed the cache and got text from the provider,
\* the table holds a row of its key with that response, expiring 24h after
\* the call (the lookup and the store working, no other call in flight
\* meanwhile).
C6_AsStated ==
    \A c \in DoneCalls :
        (GotText(c) /\ Clean(c) /\ ~c.overlapped)
        => \E row \in llm_cache :
              /\ row.signal_key = KeyOf(c)
              /\ row.response = c.response
              /\ row.expires_at = c.t_lookup + 24

\* C7 as stated: every call returns a non-empty text; when the provider
\* returned nothing or the cache lookup failed, the text is the rule-based
\* advice, nothing was written to the cache and the provider was called at
\* most once.
C7_AsStated ==
    \A c \in DoneCalls :
        /\ NonEmpty(c.advice)
        /\ (GotNothing(c) \/ c.lookup_raised)
              => /\ c.advice = RuleBasedAdvice(AdviceInputs[c.input])
                 /\ c.saves = 0
                 /\ c.provider_calls <= 1

\* C7 (amended): every call returns (a call past its lookup can always go
\* on) a non-empty text, after at most one provider call; when the provider
\* returned nothing the text is the rule-based advice and nothing is written
\* to the cache, which never holds a rule-based or an empty text; a failed
\* lookup counts as a miss: the provider is called, and its text, if any, is
\* returned.
C7_AlwaysAdvice ==
    /\ \A p \in Procs : InFlight(p) => ENABLED Generate(p)
    /\ \A row \in llm_cache : row.response.kind \in {"mock", "remote"}
    /\ \A c \in DoneCalls :
          /\ NonEmpty(c.advice)
          /\ c.provider_calls <= 1
          /\ GotNothing(c)
                => /\ c.advice = RuleBasedAdvice(AdviceInputs[c.input])
                   /\ c.saves = 0
          /\ c.lookup_raised
                => /\ c.provider_calls = 1
                   /\ GotText(c) => c.advice = c.response

\* a call whose provider returned nothing, then one whose lookup raised and
\* whose provider returned text
C7_Witness ==
    /\ Len(done) = 2
    /\ GotNothing(done[1])
    /\ done[1].advice.kind = "rule"
    /\ done[2].lookup_raised
    /\ GotText(done[2])
    /\ done[2].advice = done[2].response

-----------------------------------------------------------------------------
(* The acquisition's claims *)

\* the lookback length a period asks for
RequestedDays(per) ==
    CASE per = "1w" -> 7
      [] per = "1m" -> 30
      [] per = "3m" -> 90
      [] per = "1y" -> 365
      [] OTHER -> 180

NoData(call) == \A k \in 1..Len(call.outcomes) : call.outcomes[k] # "data"

\* C8: a call of get_price_history calls the price source at most 3 times,
\* none of them after a call that returned a non-empty series, which it
\* returns (its last RequestedDays rows); it never raises (a call in
\* progress can always make its next attempt, and after the third goes on
\* to the synthetic series); when no call of the source returned a
\* non-empty series, it returns the synthetic series, of exactly
\* RequestedDays dates, prices and volumes.
C8_RetryThenSynthesize ==
    /\ fetch.pc = "loop" =>
          \/ fetch.attempt < 3 /\ ENABLED FetchAttempt
          \/ fetch.attempt = 3
    /\ fetch.pc # "idle" =>
          /\ Len(fetch.outcomes) <= 3
          /\ \A k \in 1..Len(fetch.outcomes) :
                fetch.outcomes[k] = "data" =>
                    /\ k = Len(fetch.outcomes)
                    /\ fetch.pc = "returned"
                    /\ fetch.result.source = "ak"
                    /\ Len(fetch.result.prices) \in 1..RequestedDays(fetch.period)
          /\ (fetch.pc = "returned" /\ NoData(fetch)) =>
                /\ fetch.result.source = "mock"
                /\ fetch.result.code = fetch.code
                /\ Len(fetch.result.dates) = RequestedDays(fetch.period)
                /\ Len(fetch.result.prices) = RequestedDays(fetch.period)
                /\ Len(fetch.result.volumes) = RequestedDays(fetch.period)

\* a call for one week that got an exception, an empty frame and an exception
\* and returned seven synthetic prices
C8_Witness ==
    /\ fetch.pc = "returned"
    /\ fetch.period = "1w"
    /\ fetch.outcomes = <<"raise", "empty", "raise">>
    /\ fetch.result.source = "mock"
    /\ Len(fetch.result.prices) = 7

\* C9: any two calls of _generate_mock_history with the same identifier and
\* the same length return the same prices and the same volumes, whatever
\* the process they ran in and the calls made in between.
C9_AsStated ==
    \A i, j \in 1..Len(genDone) :
        ( /\ genDone[i].dict.code = genDone[j].dict.code
          /\ genDone[i].dict.period = genDone[j].dict.period )
        => /\ genDone[i].dict.prices = genDone[j].dict.prices
           /\ genDone[i].dict.volumes = genDone[j].dict.volumes

-----------------------------------------------------------------------------
(* The timeout dispatch's claims *)

\* C10: a dispatched acquisition call resolves no later than its timeout
\* after the dispatch, to the fetch result or to the timeout object (empty
\* dates, prices and volumes, and an error marker); once it has resolved
\* by timeout the caller does not wait for the worker.
C10_AsStated ==
    /\ acq.pc = "waiting" => clock <= acq.dispatchedAt + acq.timeout
    /\ acq.pc = "resolved" =>
          /\ acq.resolvedAt <= acq.dispatchedAt + acq.timeout
          /\ \/ acq.outcome = FetchResult(acq.code)
             \/ /\ acq.outcome.dates = <<>>
                /\ acq.outcome.prices = <<>>
                /\ acq.outcome.volumes = <<>>
                /\ acq.outcome.error # "none"

-----------------------------------------------------------------------------
(* The strategy route's claims *)

\* C11: every response of get_strategy, the degraded one included, carries a
\* valid StrategyResult: final_action one of Buy, Sell, Hold, a confidence
\* in [0, 1] and the votes mapping.
C11_AsStated ==
    route.pc = "responded" =>
        /\ route.response.code = 0
        /\ route.response.data.final_action \in Actions
        /\ "confidence" \in DOMAIN route.response.data
        /\ route.response.data.confidence \in 0..One
        /\ "votes" \in DOMAIN route.response.data
        /\ DOMAIN route.response.data.votes = Actions

-----------------------------------------------------------------------------
(* The strategies' decision tables, as stated *)

Decision(sig) == <<sig.signal, sig.confidence>>

\* the mean of the window of w values ending at index i is above (below) the
\* mean of the window of v values ending at index j
MeanAbove(xs, i, w, j, v) == v * SumRange(xs, i - w + 1, i) > w * SumRange(xs, j - v + 1, j)
MeanBelow(xs, i, w, j, v) == v * SumRange(xs, i - w + 1, i) < w * SumRange(xs, j - v + 1, j)

\* the priority table of the dual moving average, the short trend taken
\* over `back5` steps and the long trend over `back10` steps; a trend whose
\* earlier average does not exist satisfies no comparison
MATable(xs, back5, back10) ==
    LET n == Len(xs)
        short_above == MeanAbove(xs, n, 5, n, 20)
        short_below == MeanBelow(xs, n, 5, n, 20)
        golden_cross == ~MeanAbove(xs, n - 1, 5, n - 1, 20) /\ short_above
        death_cross == ~MeanBelow(xs, n - 1, 5, n - 1, 20) /\ short_below
        price_above == 5 * xs[n] > SumRange(xs, n - 4, n)
        short_rising == n - back5 >= 5 /\ MeanAbove(xs, n, 5, n - back5, 5)
        long_falling ==
            /\ n - back10 >= 20
            /\ 100 * SumRange(xs, n - 19, n)
                  < 98 * SumRange(xs, n - back10 - 19, n - back10)
    IN  IF golden_cross /\ price_above THEN <<"Buy", Pct(85)>>
        ELSE IF death_cross THEN <<"Sell", Pct(80)>>
        ELSE IF short_above /\ short_rising THEN <<"Buy", Pct(70)>>
        ELSE IF short_below /\ long_falling THEN <<"Sell", Pct(70)>>
        ELSE IF price_above THEN <<"Hold", Pct(60)>>
        ELSE <<"Hold", Pct(55)>>

\* C12: on a sequence of at least 25 prices the dual moving average returns
\* the first matching row of its table, the trends comparing the current
\* average with the average 5 and 10 steps earlier.
C12_AsStated ==
    (stratSignal["MA"] # NoSignal /\ Len(prices) >= 25)
    => Decision(stratSignal["MA"]) = MATable(prices, 5, 10)

\* the same table with the trends as the code takes them: iloc[-5] and
\* iloc[-10] are 4 and 9 steps before the last
C12_TableOfCode ==
    (stratSignal["MA"] # NoSignal /\ Len(prices) >= 25)
    => Decision(stratSignal["MA"]) = MATable(prices, 4, 9)

C12_Witness ==
    /\ stratSignal["MA"] # NoSignal
    /\ Len(prices) = MaxLen
    /\ MATable(prices, 4, 9) # MATable(prices, 5, 10)
    /\ Decision(stratSignal["MA"]) = <<"Hold", Pct(55)>>

\* a - b < c (a - b > c) for RSI values a and b held as fractions; false when
\* either is NaN
RSIDiffBelow(a, b, c) ==
    /\ ~a.nan /\ ~b.nan
    /\ a.num * b.den - b.num * a.den < c * a.den * b.den
RSIDiffAbove(a, b, c) ==
    /\ ~a.nan /\ ~b.nan
    /\ a.num * b.den - b.num * a.den > c * a.den * b.den

\* the priority table of the RSI strategy on the last RSI value, the change
\* taken over `back` steps
RSITable(xs, back) ==
    LET n == Len(xs)
        rsi == RSIAt(xs, n)
        earlier == RSIAt(xs, n - back)
        ok == ~rsi.nan
    IN  IF ok /\ rsi.num >= 70 * rsi.den THEN <<"Sell", Pct(85)>>
        ELSE IF ok /\ rsi.num <= 30 * rsi.den THEN <<"Buy", Pct(80)>>
        ELSE IF ok /\ rsi.num > 60 * rsi.den /\ RSIDiffBelow(rsi, earlier, -5)
            THEN <<"Sell", Pct(65)>>
        ELSE IF ok /\ rsi.num < 40 * rsi.den /\ RSIDiffAbove(rsi, earlier, 5)
            THEN <<"Buy", Pct(65)>>
        ELSE <<"Hold", Pct(55)>>

\* C13: on a sequence of at least 19 prices the RSI strategy returns the
\* first matching row of its table, the change being the current RSI minus
\* the RSI 5 steps earlier.
C13_AsStated ==
    (stratSignal["RSI"] # NoSignal /\ Len(prices) >= 19)
    => Decision(stratSignal["RSI"]) = RSITable(prices, 5)

\* the same table with the change as the code takes it: rsi.iloc[-5] is the
\* RSI 4 steps before the last
C13_TableOfCode ==
    (stratSignal["RSI"] # NoSignal /\ Len(prices) >= 19)
    => Decision(stratSignal["RSI"]) = RSITable(prices, 4)

C13_Witness ==
    /\ stratSignal["RSI"] # NoSignal
    /\ Len(prices) >= 19
    /\ RSITable(prices, 4) # RSITable(prices, 5)

\* the priority table of the Bollinger strategy; `relative` tells whether
\* the band width is taken relative to the middle band
BollTable(xs, relative) ==
    LET n == Len(xs)
        S == SumRange(xs, n - 19, n)
        Q == 20 * SumSqRange(xs, n - 19, n) - S * S
        prevS == SumRange(xs, n - 20, n - 1)
        prevQ == 20 * SumSqRange(xs, n - 20, n - 1) - prevS * prevS
        \* 20 * (price - middle); upper - middle = 2 * sqrt(Q / 380)
        d == 20 * xs[n] - S
        at_upper == d >= 0 /\ 19 * d * d >= 80 * Q
        at_lower == d <= 0 /\ 19 * d * d >= 80 * Q
        \* p > 0.8 iff price - middle > 0.6 * (upper - middle); p = 0.5 when
        \* the bands coincide
        p_high == Q > 0 /\ d > 0 /\ 95 * d * d > 144 * Q
        p_low == Q > 0 /\ d < 0 /\ 95 * d * d > 144 * Q
        wider ==
            IF relative
            THEN prevQ > 0 /\ FracLess(121 * prevQ, prevS * prevS, 100 * Q, S * S)
            ELSE 121 * prevQ < 100 * Q
    IN  IF at_upper THEN <<"Sell", Pct(85)>>
        ELSE IF at_lower THEN <<"Buy", Pct(80)>>
        ELSE IF p_high /\ wider THEN <<"Sell", Pct(70)>>
        ELSE IF p_low /\ wider THEN <<"Buy", Pct(70)>>
        ELSE <<"Hold", Pct(55)>>

\* C14: on a sequence of at least 25 prices the Bollinger strategy returns
\* the first matching row of its table, rows 3 and 4 asking for a band width
\* upper - lower more than 10% larger than at the previous step.
C14_AsStated ==
    (stratSignal["Bollinger"] # NoSignal /\ Len(prices) >= 25)
    => Decision(stratSignal["Bollinger"]) = BollTable(prices, FALSE)

\* the same table with the band width of the code, (upper - lower) / middle
C14_TableOfCode ==
    (stratSignal["Bollinger"] # NoSignal /\ Len(prices) >= 25)
    => Decision(stratSignal["Bollinger"]) = BollTable(prices, TRUE)

C14_Witness ==
    /\ stratSignal["Bollinger"] # NoSignal
    /\ Len(prices) >= 25
    /\ BollTable(prices, TRUE) # BollTable(prices, FALSE)
    /\ Decision(stratSignal["Bollinger"]) = <<"Buy", Pct(70)>>

-----------------------------------------------------------------------------
(* The indicator library's claims *)

\* C15: every indicator output has exactly as many elements as the input,
\* whatever its length: the list of calculate_ma, the list of calculate_rsi
\* and each of the three lists of calculate_bollinger_bands.
C15_AsStated ==
    LET n == Len(indPrices)
    IN  /\ "ma5" \in indDone => Len(indOut.ma5) = n
        /\ "ma20" \in indDone => Len(indOut.ma20) = n
        /\ "rsi" \in indDone => Len(indOut.rsi) = n
        /\ "bb" \in indDone =>
              /\ Len(indOut.bb.upper) = n
              /\ Len(indOut.bb.middle) = n
              /\ Len(indOut.bb.lower) = n

\* the trailing loss sum of the RSI window at index i is 0
NoLoss(xs, i) == LossSum(xs, i - period + 1, i) = 0

\* C16: every element of calculate_rsi's output lies in [0, 100], and is
\* exactly 50 where the history is insufficient (every index of an input
\* shorter than period + 1 included) and where the trailing loss is 0.
C16_AsStated ==
    "rsi" \in indDone =>
        \A i \in 1..Len(indOut.rsi) :
            LET v == indOut.rsi[i]
            IN  /\ 0 <= v.num /\ v.num <= 100 * v.den
                /\ (Len(indPrices) < period + 1 \/ i < period
                      \/ NoLoss(indPrices, i))
                   => v = Number(50, 1)

-----------------------------------------------------------------------------
(* The strategies on degenerate and on regular series *)

\* C17: the RSI strategy never decides on an undefined RSI: the last RSI is
\* a number whenever the table is consulted, and when the trailing loss is 0
\* the decision is the one of a neutral RSI of 50, Hold 0.55.
C17_AsStated ==
    "RSI" \in computed =>
        /\ ~RSIAt(prices, Len(prices)).nan
        /\ NoLoss(prices, Len(prices))
           => Decision(stratSignal["RSI"]) = <<"Hold", Pct(55)>>

NonDecreasing(xs) == \A i \in 2..Len(xs) : xs[i - 1] <= xs[i]
StrictlyIncreasing(xs) == \A i \in 2..Len(xs) : xs[i - 1] < xs[i]

\* C18: on every monotonically increasing series of at least 30 prices,
\* one that never falls and ends above its start, the dual moving average reports Buy with a confidence
\* of at least 0.70.
C18_AsStated ==
    (stratSignal["MA"] # NoSignal /\ Len(prices) >= 30
        /\ NonDecreasing(prices) /\ prices[1] < prices[Len(prices)])
    => /\ stratSignal["MA"].signal = "Buy"
       /\ stratSignal["MA"].confidence >= Pct(70)

\* the same on the series that rise at every step
C18_StrictlyIncreasing ==
    (stratSignal["MA"] # NoSignal /\ Len(prices) >= 30
        /\ StrictlyIncreasing(prices))
    => /\ stratSignal["MA"].signal = "Buy"
       /\ stratSignal["MA"].confidence >= Pct(70)

C18_Witness ==
    /\ "MA" \in computed
    /\ Len(prices) >= 30
    /\ StrictlyIncreasing(prices)
    /\ Decision(stratSignal["MA"]) = <<"Buy", Pct(70)>>

Constant(xs) == \A i \in 2..Len(xs) : xs[i] = xs[1]

\* C19: on every constant series of at least 30 prices the RSI strategy
\* returns Hold with confidence 0.55, never Buy or Sell.
C19_ConstantHolds ==
    (stratSignal["RSI"] # NoSignal /\ Len(prices) >= 30 /\ Constant(prices))
    => Decision(stratSignal["RSI"]) = <<"Hold", Pct(55)>>

C19_Witness ==
    /\ "RSI" \in computed
    /\ Len(prices) > 30
    /\ Constant(prices)
    /\ prices[1] = MaxPrice
    /\ Decision(stratSignal["RSI"]) = <<"Hold", Pct(55)>>

-----------------------------------------------------------------------------
(* The event loop and the worker pool *)

\* the external calls running at this moment: those in the threads of the
\* pool and the one a handler makes on the event loop
ExternalCalls == busy + (IF loopBusy THEN 1 ELSE 0)

\* C20: every slow external call runs in the pool of max_workers threads:
\* the event loop never runs one itself, and no more than max_workers of
\* them run at the same time.
C20_AsStated ==
    /\ ~loopBusy
    /\ ExternalCalls <= max_workers

-----------------------------------------------------------------------------
(* Two requests racing on one key *)

RowsOf(key) == {row \in llm_cache : row.signal_key = key}

\* the last two calls had the same prompt, the second began before the first
\* returned, both found no row of the key and both got text from the provider,
\* the store working
Raced ==
    /\ Len(done) = 2
    /\ done[1].input = done[2].input
    /\ done[2].begin < done[1].end
    /\ GotText(done[1]) /\ GotText(done[2])
    /\ Clean(done[1]) /\ Clean(done[2])
    /\ ~done[1].found_expired /\ ~done[2].found_expired

\* C21: two generate_advice requests with the same prompt that both miss the
\* cache and both write: each returns its advice text, the table holds at
\* most one row per key, and the row of the raced key is a live row written
\* during the race, which a later lookup returns.
C21_RaceIsHarmless ==
    /\ \A c \in DoneCalls : NonEmpty(c.advice)
    /\ \A row \in llm_cache : Cardinality(RowsOf(row.signal_key)) = 1
    /\ Raced =>
          /\ done[1].advice = done[1].response
          /\ done[2].advice = done[2].response
          /\ \E row \in RowsOf(KeyOf(done[1])) :
                /\ Truthy(row.response)
                /\ row.expires_at = done[1].t_lookup + CACHE_TTL_HOURS
                /\ get_cached_response(llm_cache, KeyOf(done[1]),
                                       done[1].t_lookup, FALSE) = row.response

C21_Witness ==
    /\ Raced
    /\ done[1].response # done[2].response
    /\ Cardinality(RowsOf(KeyOf(done[1]))) = 1

-----------------------------------------------------------------------------
(* The delays between the attempts of get_price_history *)

\* the attempts (numbered from 0) that time.sleep followed
SleptAfter == {fetch.slept[j] : j \in 1..Len(fetch.slept)}

\* C22: in get_price_history a wait of RETRY_DELAY follows every failed
\* attempt but the last, whether it raised or returned an empty series, and
\* none follows the third attempt: at most two waits in a call.
C22_AsStated ==
    fetch.pc # "idle" =>
        /\ \A k \in 1..Len(fetch.outcomes) :
              (fetch.outcomes[k] # "data" /\ k < MAX_RETRIES)
              <=> (k - 1) \in SleptAfter
        /\ Len(fetch.slept) <= MAX_RETRIES - 1
        /\ fetch.elapsed = RETRY_DELAY * Len(fetch.slept)

-----------------------------------------------------------------------------
(* Ties in the vote *)

Rank(a) == CHOOSE i \in 1..Len(ActionOrder) : ActionOrder[i] = a

\* the actions that tie with a on vote count and confidence sum
TiedWith(a) == {b \in Actions : VoteCount(b) = VoteCount(a) /\ ConfSum(b) = ConfSum(a)}

ThreeWayExample == <<Sig("Buy", Pct(80)), Sig("Sell", Pct(80)), Sig("Hold", Pct(55))>>

\* C23: when actions tie on vote count and confidence sum the final action
\* is the first of them in the order Buy, Sell, Hold; (Buy,0.80), (Sell,0.80),
\* (Hold,0.55) elect Buy; the result is a function of the signals.
C23_TieGoesToFirst ==
    result # NoResult =>
        /\ \A b \in TiedWith(result.final_action) :
              Rank(result.final_action) <= Rank(b)
        /\ signals = ThreeWayExample => result.final_action = "Buy"
        /\ result = Aggregate(signals)

C23_Witness ==
    /\ result # NoResult
    /\ Cardinality(TiedWith(result.final_action)) = 2
    /\ VoteCount("Hold") = 1
    /\ ConfSum("Buy") = Pct(80)
    /\ result.final_action = "Buy"

-----------------------------------------------------------------------------
(* The positions the dual moving average reads *)

\* C24: when the dual moving average passes its length guard, every average
\* its table reads has a full window: the short average at iloc[-1],
\* iloc[-2] and iloc[-5], the long average at iloc[-1], iloc[-2] and
\* iloc[-10].
C24_AsStated ==
    "MA" \in computed =>
        LET n == Len(prices)
        IN  /\ \A k \in {1, 2, 5} : RollingDefined(Iloc(n, k), short_window)
            /\ \A k \in {1, 2, 10} : RollingDefined(Iloc(n, k), long_window)

-----------------------------------------------------------------------------
(* The engine on constant and on short series *)

\* C25: on a constant series of at least 25 prices the Bollinger strategy
\* returns Sell 0.85 (the price equals the upper band), the other two
\* strategies return Hold, and the final action of the engine is Hold.
C25_ConstantSeries ==
    (result # NoResult /\ Len(prices) >= 25 /\ Constant(prices))
    => /\ Decision(result.signals[3]) = <<"Sell", Pct(85)>>
       /\ result.signals[3].name = "Bollinger"
       /\ result.signals[1].signal = "Hold"
       /\ result.signals[2].signal = "Hold"
       /\ result.final_action = "Hold"
       /\ result.votes = [Buy |-> 0, Sell |-> 1, Hold |-> 2]

C25_Witness ==
    /\ result # NoResult
    /\ Len(prices) = 25
    /\ Constant(prices)
    /\ result.signals[3].signal = "Sell"
    /\ result.final_action = "Hold"

\* C26: on fewer than 25 prices, none included, the dual moving average and
\* the Bollinger strategy vote Hold with confidence 0.5, the final action is
\* Hold and calculate_position on the result returns 0.
C26_ShortSeriesHold ==
    (result # NoResult /\ Len(prices) < 25)
    => /\ result.signals[1] = InsufficientData("MA")
       /\ result.signals[3] = InsufficientData("Bollinger")
       /\ result.final_action = "Hold"
       /\ posCall # NoCall => posCall.amount = 0

\* 24 prices on which the RSI strategy votes Buy or Sell and is outvoted
C26_Witness ==
    /\ posCall # NoCall
    /\ Len(prices) = 24
    /\ result.signals[2].signal # "Hold"
    /\ result.final_action = "Hold"
    /\ posCall.amount = 0

C26_WitnessEmpty ==
    /\ posCall # NoCall
    /\ prices = <<>>
    /\ result.final_action = "Hold"
    /\ posCall.amount = 0

=============================================================================
